---- MODULE Spec2Model ----
(***************************************************************************)
(* The snake-game simulation core of snake_game/game: Direction, Snake,    *)
(* Food, LevelManager and GameState, as a state machine whose actions are  *)
(* GameState.update(), GameState.change_snake_direction() and              *)
(* GameState.get_obstacles().                                              *)
(*                                                                         *)
(* A cell is a pair <<x, y>>.  A list of cells that the code only tests    *)
(* for membership (the obstacle list) is a set of cells; the snake body,   *)
(* whose order matters, is a sequence with the head first.                 *)
(*                                                                         *)
(* A definition introduced as "Fault:" is a deliberately wrong variant of  *)
(* the definition that follows it.  The model does not use it; it is       *)
(* substituted for that definition to see that a property notices.         *)
(***************************************************************************)
EXTENDS Integers, Sequences, FiniteSets, TLC

(***************************************************************************)
(* Bounds of the model.                                                    *)
(***************************************************************************)
\* Boards of a new game are MinBoard..MaxWidth wide and MinBoard high.
MaxWidth == 6
\* update() calls explored after construction.
MaxTicks == 6
\* update() calls explored after a resumed mid-game position.
MidTicks == 2
\* The random food sampler is explored for the free cells within this
\* Manhattan distance of the snake's head.
MaxFoodDist == 2
\* Head offsets explored for a resumed mid-game position.
MidHeads == 2
\* Cells of a seed's stream that the regenerate calls before a resumed
\* mid-game position may have drawn beyond the least number.
MidSkips == 4

\* Rejected cells explored in a sampling loop of Food.
FoodTries == 2
\* move() calls explored on a Snake on its own.
SnakeMoves == 3
\* Levels and board sides with which the LevelManager is queried on its own.
MaxQueryLevel == 18
MaxQueryBoard == 9

(***************************************************************************)
(* Program constants.                                                      *)
(***************************************************************************)
MinBoard == 5
foods_per_level == 5
max_level == 10
FoodScore == 10
LevelBonus == 50
\* The board of the repository's own test, used for resumed positions.
MidBoard == <<20, 15>>

(***************************************************************************)
(* Direction                                                               *)
(***************************************************************************)
Directions == {"UP", "DOWN", "LEFT", "RIGHT"}

DirVec(d) ==
    CASE d = "UP"    -> <<0, -1>>
      [] d = "DOWN"  -> <<0, 1>>
      [] d = "LEFT"  -> <<-1, 0>>
      [] d = "RIGHT" -> <<1, 0>>

Min(a, b) == IF a < b THEN a ELSE b
Abs(a) == IF a < 0 THEN -a ELSE a
SeqToSet(s) == {s[i] : i \in 1..Len(s)}

(***************************************************************************)
(* LevelManager.get_level_obstacles                                        *)
(***************************************************************************)
\* int(r * cos(radians(angle))), int(r * sin(radians(angle))) for r = 1..3 and
\* angle = 0, 30, .., 330, as IEEE doubles give them (int truncates to zero).
SpiralOffsets ==
    { <<1, 0>>, <<0, 0>>, <<0, 1>>, <<-1, 0>>, <<0, -1>>,
      <<2, 0>>, <<1, 1>>, <<0, 2>>, <<-1, -1>>, <<-2, 0>>, <<0, -2>>, <<1, -1>>,
      <<3, 0>>, <<2, 1>>, <<1, 2>>, <<0, 3>>, <<-1, 2>>, <<-2, 1>>, <<-3, 0>>,
      <<-2, -1>>, <<-1, -2>>, <<0, -3>>, <<1, -2>>, <<2, -1>> }

\* The n cells (randint(xlo, xhi), randint(ylo, yhi)) drawn right after
\* random.seed(seed): the Mersenne Twister's output for the seeds and ranges
\* of the boards modelled (20 x 15: level 7 and level 10).
SeededScatter(seed, n, xlo, xhi, ylo, yhi) ==
    CASE seed = 42 /\ n = 15 /\ <<xlo, xhi, ylo, yhi>> = <<4, 15, 4, 10>> ->
            { <<14, 4>>, <<4, 9>>, <<8, 5>>, <<7, 5>>, <<15, 4>>, <<14, 9>>,
              <<12, 4>>, <<13, 7>>, <<4, 4>>, <<5, 5>>, <<7, 8>>, <<13, 4>>,
              <<12, 5>>, <<15, 9>>, <<15, 8>> }
      [] seed = 10 /\ n = 20 /\ <<xlo, xhi, ylo, yhi>> = <<3, 16, 3, 11>> ->
            { <<12, 3>>, <<9, 10>>, <<6, 10>>, <<16, 10>>, <<16, 7>>, <<13, 5>>,
              <<3, 11>>, <<10, 8>>, <<4, 6>>, <<14, 8>>, <<3, 9>>, <<16, 5>>,
              <<12, 8>>, <<9, 9>>, <<7, 7>>, <<10, 5>>, <<13, 7>>, <<13, 8>>,
              <<5, 10>> }

Level2Obstacles(w, h) ==
    LET mid_x == w \div 2
        mid_y == h \div 2
    IN  {<<mid_x, y>> : y \in {v \in (mid_y - 2)..(mid_y + 2) : 0 < v /\ v < h - 1}}
        \cup {<<x, mid_y>> : x \in {v \in (mid_x - 3)..(mid_x + 3) : 0 < v /\ v < w - 1}}

Level3Obstacles(w, h) ==
    ((3..7) \X (3..5)) \cup (((w - 8)..(w - 4)) \X ((h - 6)..(h - 4)))

Level4Obstacles(w, h) ==
    {c \in ((4..(w - 11)) \cup ((w - 6)..(w - 5))) \X (4..(h - 5)) : c[2] % 4 = 0}

Level5Obstacles(w, h) ==
    LET center_x == w \div 2
        center_y == h \div 2
        pts == {<<center_x + o[1], center_y + o[2]>> : o \in SpiralOffsets}
    IN  {p \in pts : 1 < p[1] /\ p[1] < w - 2 /\ 1 < p[2] /\ p[2] < h - 2}

Level6Obstacles(w, h) ==
    {<<x, 3>> : x \in 3..(w - 4)} \cup {<<x, h - 4>> : x \in 3..(w - 4)}
    \cup {<<3, y>> : y \in 3..(h - 4)} \cup {<<w - 4, y>> : y \in 3..(h - 4)}

Level7Obstacles(w, h) ==
    SeededScatter(42, Min(20, (w * h) \div 20), 4, w - 5, 4, h - 5)

Level8Obstacles(w, h) ==
    LET center_x == w \div 2
        center_y == h \div 2
        size == Min(w, h) \div 4
    IN  {p \in ((center_x - size)..(center_x + size)) \X ((center_y - size)..(center_y + size)) :
            /\ Abs(p[1] - center_x) + Abs(p[2] - center_y) = size
            /\ 1 < p[1] /\ p[1] < w - 2 /\ 1 < p[2] /\ p[2] < h - 2}

Level9Obstacles(w, h) ==
    {p \in (5..(w - 6)) \X (2..(h - 3)) : (p[1] - 5) % 3 = 0 /\ p[2] % 4 # 0}
    \cup {p \in (2..(w - 3)) \X (5..(h - 6)) : (p[2] - 5) % 3 = 0 /\ p[1] % 4 # 0}

Level10Obstacles(level, w, h) ==
    LET center_x == w \div 2
        center_y == h \div 2
    IN  {<<center_x + i, center_y>> : i \in {v \in -2..2 : 1 < center_x + v /\ center_x + v < w - 2}}
        \cup {<<center_x, center_y + i>> : i \in {v \in -2..2 : 1 < center_y + v /\ center_y + v < h - 2}}
        \cup SeededScatter(level, Min(30 + level, (w * h) \div 15), 3, w - 4, 3, h - 4)

get_level_obstacles(level, w, h) ==
    CASE level = 2 -> Level2Obstacles(w, h)
      [] level = 3 -> Level3Obstacles(w, h)
      [] level = 4 -> Level4Obstacles(w, h)
      [] level = 5 -> Level5Obstacles(w, h)
      [] level = 6 -> Level6Obstacles(w, h)
      [] level = 7 -> Level7Obstacles(w, h)
      [] level = 8 -> Level8Obstacles(w, h)
      [] level = 9 -> Level9Obstacles(w, h)
      [] level >= 10 -> Level10Obstacles(level, w, h)
      [] OTHER -> {}

(***************************************************************************)
(* LevelManager.get_level_speed, in thousandths of a second: the table of  *)
(* lines 15-26 holds multiples of 0.005, and so does 0.08 - 0.005 k.       *)
(***************************************************************************)
level_speeds == <<400, 350, 300, 250, 200, 180, 150, 120, 100, 80>>

\* Fault: no floor under the speed of the levels beyond the table.
SpeedWithoutFloor(l) ==
    IF l \in DOMAIN level_speeds THEN level_speeds[l] ELSE 80 - (l - 10) * 5
get_level_speed(l) ==
    IF l \in DOMAIN level_speeds THEN level_speeds[l]
    ELSE IF 50 > 80 - (l - 10) * 5 THEN 50 ELSE 80 - (l - 10) * 5

(***************************************************************************)
(* State.  width/height, the Snake fields (body, direction, grow_pending), *)
(* the Food fields (food = position, food_obstacles = Food.obstacles) and  *)
(* the GameState counters and flags.  op is the last call; after an        *)
(* update(), ret is its return value and pre the fields before it.  fuel   *)
(* is the number of update() calls the model still explores.  rng is the   *)
(* state of the process-wide generator of the random module, which         *)
(* levels.py reseeds and snake_engine.py draws the food from.  running and *)
(* paused are the flags of the SnakeGame that runs the game loop, and      *)
(* current_game is the game session of the 1A2B server; both stay as       *)
(* constructed wherever the GameState is driven directly.                  *)
(***************************************************************************)
VARIABLES width, height, body, direction, grow_pending, food, food_obstacles,
          score, level, foods_eaten, game_over, game_won,
          op, ret, pre, fuel, rng,
          running, paused, current_game

fields == <<body, direction, grow_pending, food, food_obstacles,
            score, level, foods_eaten, game_over, game_won>>
session == <<running, paused, current_game>>
vars == <<width, height, fields, op, ret, pre, fuel, rng, session>>

\* SnakeGame.__init__: no loop is running.
NotRunning == running = FALSE /\ paused = FALSE

\* Game1A2BServer.__init__: current_game is None.
NoGame == [secret |-> <<>>, guesses |-> <<>>, attempt_count |-> -1, is_won |-> FALSE]

\* The mutable fields of the GameState and the generator state, as a record.
Snapshot ==
    [body |-> body, direction |-> direction, grow_pending |-> grow_pending,
     food |-> food, food_obstacles |-> food_obstacles, score |-> score,
     level |-> level, foods_eaten |-> foods_eaten,
     game_over |-> game_over, game_won |-> game_won, rng |-> rng]

(***************************************************************************)
(* Snake                                                                   *)
(***************************************************************************)
\* Snake.move: the new head, and the body after the insert and the pop.
\* Fault: dx and dy are swapped.
MoveHeadSwapped(b, d) == <<b[1][1] + DirVec(d)[2], b[1][2] + DirVec(d)[1]>>
MoveHead(b, d) == <<b[1][1] + DirVec(d)[1], b[1][2] + DirVec(d)[2]>>

\* Fault: the tail is never dropped.
MoveBodyKeepTail(b, d, g) == <<MoveHead(b, d)>> \o b
MoveBody(b, d, g) ==
    IF ~g THEN <<MoveHead(b, d)>> \o SubSeq(b, 1, Len(b) - 1)
    ELSE <<MoveHead(b, d)>> \o b

\* Snake.change_direction: the direction after the call.
IsOpposite(cur, new) ==
    \/ cur = "UP" /\ new = "DOWN"
    \/ cur = "DOWN" /\ new = "UP"
    \/ cur = "LEFT" /\ new = "RIGHT"
    \/ cur = "RIGHT" /\ new = "LEFT"

\* Fault: a reversal is accepted.
ChangeDirectionAlways(cur, new) == new
change_direction(cur, new) == IF IsOpposite(cur, new) THEN cur ELSE new

\* Snake.check_self_collision: head in body[1:].
\* Fault: no self-collision check.
SelfCollisionNever(b) == FALSE
check_self_collision(b) == b[1] \in {b[i] : i \in 2..Len(b)}

(***************************************************************************)
(* Food                                                                    *)
(***************************************************************************)
Interior(w, h) == (1..(w - 2)) \X (1..(h - 2))

\* Fault: the snake's cells are not excluded.
FreeCellsIgnoringSnake(w, h, snake_body, obstacles) ==
    Interior(w, h) \ obstacles

\* Fault: the obstacle test of line 101 is missing.
FreeCellsIgnoringObstacles(w, h, snake_body, obstacles) ==
    Interior(w, h) \ SeqToSet(snake_body)
\* The cells on which Food.regenerate's loop stops.
FreeCells(w, h, snake_body, obstacles) ==
    (Interior(w, h) \ SeqToSet(snake_body)) \ obstacles

Dist(p, q) == Abs(p[1] - q[1]) + Abs(p[2] - q[2])

\* The outcomes of the random sampling that the model explores.
FoodSample(w, h, snake_body, obstacles) ==
    {c \in FreeCells(w, h, snake_body, obstacles) : Dist(c, snake_body[1]) <= MaxFoodDist}

(***************************************************************************)
(* The random module.  Its process-wide generator is seeded from the       *)
(* operating system when the module is imported, and get_level_obstacles   *)
(* reseeds it at the levels 7 and >= 10 (levels.py, lines 103 and 135).  A *)
(* state of the generator is Entropy (never reseeded: what it draws is not *)
(* predictable) or [seed |-> s, n |-> k]: get_level_obstacles has reseeded *)
(* it with s and drawn its obstacles, and Food has drawn k cells since.    *)
(***************************************************************************)
\* The seed -1 stands for the operating system's entropy.
Entropy == [seed |-> -1, n |-> 0]

IsSeededLevel(l) == l = 7 \/ l >= 10
LevelSeed(l) == IF l = 7 THEN 42 ELSE l

\* The generator after get_level_obstacles(l, ..) called in state r.
\* Fault: the obstacles are drawn without random.seed.
ObstacleRngUnseeded(r, l) == r
ObstacleRng(r, l) ==
    IF IsSeededLevel(l) THEN [seed |-> LevelSeed(l), n |-> 0] ELSE r

\* The cells (randint(1, w - 2), randint(1, h - 2)) that the generator yields
\* after get_level_obstacles reseeded it and drew its obstacles: the Mersenne
\* Twister's output for the seeds and the board modelled (20 x 15).
FoodStream(s, w, h) ==
    CASE s = 42 /\ <<w, h>> = <<20, 15>> ->
            << <<14, 4>>, <<15, 10>>, <<9, 13>>, <<1, 13>>, <<6, 12>>, <<14, 6>>,
               <<9, 3>>, <<7, 13>>, <<11, 2>>, <<3, 7>>, <<4, 6>>, <<12, 10>>,
               <<9, 13>>, <<2, 12>>, <<15, 9>>, <<4, 7>>, <<3, 9>>, <<10, 11>>,
               <<12, 10>>, <<7, 12>>, <<3, 1>>, <<8, 13>>, <<10, 2>>, <<8, 2>>,
               <<13, 5>>, <<15, 11>>, <<12, 3>>, <<12, 6>>, <<7, 11>>, <<9, 12>> >>
      [] s = 10 /\ <<w, h>> = <<20, 15>> ->
            << <<8, 8>>, <<13, 1>>, <<1, 4>>, <<5, 4>>, <<10, 9>>, <<12, 13>>,
               <<8, 6>>, <<18, 8>>, <<14, 8>>, <<3, 11>>, <<11, 9>>, <<6, 4>>,
               <<14, 4>>, <<2, 1>>, <<16, 5>>, <<3, 9>>, <<3, 3>>, <<13, 10>>,
               <<12, 10>>, <<5, 2>>, <<4, 8>>, <<6, 13>>, <<7, 6>>, <<14, 7>>,
               <<15, 4>>, <<9, 3>>, <<17, 3>>, <<4, 5>>, <<15, 5>>, <<6, 11>> >>

\* Food.regenerate called in generator state r: the cells its loop can stop
\* on, each with the generator state it leaves.  A reseeded generator yields
\* its stream, and the loop stops on the first free cell of it.
FoodDraw(r, w, h, snake_body, obstacles) ==
    IF r = Entropy
    THEN {[cell |-> c, rng |-> r] : c \in FoodSample(w, h, snake_body, obstacles)}
    ELSE LET stream == FoodStream(r.seed, w, h)
             stops == {j \in (r.n + 1)..Len(stream) :
                          stream[j] \in FreeCells(w, h, snake_body, obstacles)}
         IN  {[cell |-> stream[j], rng |-> [seed |-> r.seed, n |-> j]] :
                 j \in {i \in stops : \A m \in stops : i <= m}}

\* The generator states a Food.regenerate that returns can leave.
RngAfterDraw(r, w, h, snake_body, obstacles) ==
    IF r = Entropy
    THEN IF FreeCells(w, h, snake_body, obstacles) # {} THEN {r} ELSE {}
    ELSE {o.rng : o \in FoodDraw(r, w, h, snake_body, obstacles)}

(***************************************************************************)
(* GameState.__init__                                                      *)
(***************************************************************************)
Boards == (MinBoard..MaxWidth) \X {MinBoard}

NoCall ==
    /\ op = "init"
    /\ ret = "none"
    /\ pre = "none"

Init ==
    /\ NotRunning
    /\ current_game = NoGame
    /\ \E b \in Boards \cup {MidBoard} : width = b[1] /\ height = b[2]
    /\ score = 0
    /\ level = 1
    /\ foods_eaten = 0
    /\ game_over = FALSE
    /\ game_won = FALSE
    /\ body = << <<width \div 2, height \div 2>> >>
    /\ direction = "RIGHT"
    /\ grow_pending = FALSE
    /\ food_obstacles = get_level_obstacles(level, width, height)
    \* Food.__init__ samples a cell off the obstacles, then regenerate(body)
    \* replaces it by one off the snake too.
    /\ Interior(width, height) \ food_obstacles # {}
    /\ food \in FoodSample(width, height, body, food_obstacles)
    /\ rng = Entropy
    /\ fuel = IF <<width, height>> = MidBoard THEN MidTicks ELSE MaxTicks
    /\ NoCall

(***************************************************************************)
(* GameState.update                                                        *)
(***************************************************************************)
\* Fault: a won game is not treated as ended.
IsTerminalOverOnly == game_over
IsTerminal == game_over \/ game_won

\* Fault: < and > for <= and >=.
HitsWallStrict(p, w, h) == p[1] < 0 \/ p[1] > w - 1 \/ p[2] < 0 \/ p[2] > h - 1
HitsWall(p, w, h) == p[1] <= 0 \/ p[1] >= w - 1 \/ p[2] <= 0 \/ p[2] >= h - 1

\* Fault: no obstacle check.
HitsObstacleNever(p, lvl, w, h) == FALSE
HitsObstacle(p, lvl, w, h) == p \in get_level_obstacles(lvl, w, h)

new_head == MoveHead(body, direction)
moved == MoveBody(body, direction, grow_pending)

\* What every path through update() past the first check has in common:
\* the call is recorded and the snake has moved.
Tick(r) ==
    /\ fuel > 0
    /\ fuel' = fuel - 1
    /\ op' = "update"
    /\ ret' = r
    /\ pre' = Snapshot
    /\ UNCHANGED <<width, height, session>>

\* Lines 142-143.
UpdateTerminal ==
    /\ IsTerminal
    /\ Tick(FALSE)
    /\ UNCHANGED <<fields, rng>>

\* Lines 146-156.
UpdateWall ==
    /\ ~IsTerminal
    /\ HitsWall(new_head, width, height)
    /\ Tick(FALSE)
    /\ body' = moved
    /\ grow_pending' = FALSE
    /\ game_over' = TRUE
    /\ UNCHANGED <<direction, food, food_obstacles, score, level, foods_eaten, game_won, rng>>

\* Lines 158-164.
UpdateObstacle ==
    /\ ~IsTerminal
    /\ ~HitsWall(new_head, width, height)
    /\ HitsObstacle(new_head, level, width, height)
    /\ Tick(FALSE)
    /\ body' = moved
    /\ grow_pending' = FALSE
    /\ game_over' = TRUE
    /\ rng' = ObstacleRng(rng, level)
    /\ UNCHANGED <<direction, food, food_obstacles, score, level, foods_eaten, game_won>>

\* Lines 166-169.
UpdateSelf ==
    /\ ~IsTerminal
    /\ ~HitsWall(new_head, width, height)
    /\ ~HitsObstacle(new_head, level, width, height)
    /\ check_self_collision(moved)
    /\ Tick(FALSE)
    /\ body' = moved
    /\ grow_pending' = FALSE
    /\ game_over' = TRUE
    /\ rng' = ObstacleRng(rng, level)
    /\ UNCHANGED <<direction, food, food_obstacles, score, level, foods_eaten, game_won>>

NoCollision ==
    /\ ~IsTerminal
    /\ ~HitsWall(new_head, width, height)
    /\ ~HitsObstacle(new_head, level, width, height)
    /\ ~check_self_collision(moved)

\* Lines 172, 182: the head is not on the food.
UpdateMove ==
    /\ NoCollision
    /\ new_head # food
    /\ Tick(TRUE)
    /\ body' = moved
    /\ grow_pending' = FALSE
    /\ rng' = ObstacleRng(rng, level)
    /\ UNCHANGED <<direction, food, food_obstacles, score, level, foods_eaten, game_over, game_won>>

\* Fault: a wrong food score.
EatScoreOff == score + FoodScore + 1
EatScore == score + FoodScore

\* Fault: the level needs one food more.
LevelCompleteLate == foods_eaten + 1 > foods_per_level
LevelComplete == foods_eaten + 1 >= foods_per_level

\* Fault: the game is won one level early.
AtMaxLevelEarly == level >= max_level - 1
AtMaxLevel == level >= max_level

\* Lines 172-182, the level not completed.
UpdateEat ==
    /\ NoCollision
    /\ new_head = food
    /\ ~LevelComplete
    /\ Tick(TRUE)
    /\ body' = moved
    /\ grow_pending' = TRUE
    /\ score' = EatScore
    /\ foods_eaten' = foods_eaten + 1
    /\ \E o \in FoodDraw(ObstacleRng(rng, level), width, height, moved, food_obstacles) :
            food' = o.cell /\ rng' = o.rng
    /\ UNCHANGED <<direction, food_obstacles, level, game_over, game_won>>

\* Fault: no level bonus.
AdvanceScoreNoBonus == EatScore
AdvanceScore == EatScore + LevelBonus

\* Lines 172-182 with _advance_level, lines 190-199.
UpdateAdvance ==
    /\ NoCollision
    /\ new_head = food
    /\ LevelComplete
    /\ ~AtMaxLevel
    /\ Tick(TRUE)
    /\ body' = moved
    /\ grow_pending' = TRUE
    /\ level' = level + 1
    /\ foods_eaten' = 0
    /\ score' = AdvanceScore
    /\ food_obstacles' = get_level_obstacles(level + 1, width, height)
    \* the regenerate of line 176 returns, and line 199 replaces its cell
    /\ \E r \in RngAfterDraw(ObstacleRng(rng, level), width, height, moved, food_obstacles) :
         \E o \in FoodDraw(ObstacleRng(r, level + 1), width, height, moved, food_obstacles') :
            food' = o.cell /\ rng' = o.rng
    /\ UNCHANGED <<direction, game_over, game_won>>

\* Lines 172-182 with _advance_level, lines 186-188.
UpdateWin ==
    /\ NoCollision
    /\ new_head = food
    /\ LevelComplete
    /\ AtMaxLevel
    /\ Tick(TRUE)
    /\ body' = moved
    /\ grow_pending' = TRUE
    /\ score' = EatScore
    /\ foods_eaten' = foods_eaten + 1
    /\ \E o \in FoodDraw(ObstacleRng(rng, level), width, height, moved, food_obstacles) :
            food' = o.cell /\ rng' = o.rng
    /\ game_won' = TRUE
    /\ UNCHANGED <<direction, food_obstacles, level, game_over>>

(***************************************************************************)
(* GameState.get_obstacles                                                 *)
(***************************************************************************)
get_obstacles == get_level_obstacles(level, width, height)

\* get_level_obstacles(l, w, h) called in generator state r: the lists it can
\* return.  The scattered cells of a seeded level are drawn from the generator
\* as random.seed has just left it, and the tables of SeededScatter are those
\* draws.  Drawn from any other state they are not predictable: the model
\* then takes the table and its mirror image as two of the outcomes.
ObstaclesDrawn(r, l, w, h) ==
    IF ~IsSeededLevel(l) \/ ObstacleRng(r, l) = [seed |-> LevelSeed(l), n |-> 0]
    THEN {get_level_obstacles(l, w, h)}
    ELSE {get_level_obstacles(l, w, h),
          {<<w - 1 - c[1], c[2]>> : c \in get_level_obstacles(l, w, h)}}

GetObstacles ==
    /\ op' = "get_obstacles"
    /\ ret' \in ObstaclesDrawn(rng, level, width, height)
    /\ pre' = Snapshot
    /\ rng' = ObstacleRng(rng, level)
    /\ UNCHANGED <<width, height, session, fields, fuel>>

(***************************************************************************)
(* GameState.change_snake_direction                                        *)
(***************************************************************************)
ChangeSnakeDirection ==
    \E d \in Directions :
        /\ direction' = change_direction(direction, d)
        /\ op' = "change_snake_direction"
        /\ ret' = "none"
        /\ pre' = "none"
        /\ UNCHANGED <<width, height, session, body, grow_pending, food, food_obstacles,
                       score, level, foods_eaten, game_over, game_won, fuel, rng>>

Next ==
    \/ UpdateTerminal
    \/ UpdateWall
    \/ UpdateObstacle
    \/ UpdateSelf
    \/ UpdateMove
    \/ UpdateEat
    \/ UpdateAdvance
    \/ UpdateWin
    \/ ChangeSnakeDirection
    \/ GetObstacles

\* A game from its construction.
Spec == Init /\ [][Next]_vars

(***************************************************************************)
(* Positions later in a game.  Level 10 is fifty foods away from the       *)
(* construction, so the later levels are explored from positions that      *)
(* satisfy what update() maintains: the body is a path of adjacent,        *)
(* distinct interior cells off the obstacles, its length plus the pending  *)
(* growth is one more than the number of foods eaten, the score is the sum *)
(* of the food scores and level bonuses, and the food is a free cell.  The *)
(* snake lies along the outermost interior ring of the 20 x 15 board.      *)
(*                                                                         *)
(* From level 7 on the generator has been reseeded: the food is then a     *)
(* cell of the seed's stream, at an index j that the regenerate calls made *)
(* since the reseeding can have reached, and the snake is one that has     *)
(* come within MaxFoodDist of it.  At the levels 7 and 10 every update()   *)
(* past the wall check reseeds, so the generator state is the fresh one    *)
(* unless the last update() ate; at the levels 8 and 9 nothing reseeds,    *)
(* and the stream of level 7's seed goes on.                               *)
(***************************************************************************)
RingLen(w, h) == 2 * (w - 2) + 2 * (h - 2) - 4

\* The k-th cell of the ring, clockwise from the top-left interior cell.
Ring(k, w, h) ==
    IF k <= w - 2 THEN <<k, 1>>
    ELSE IF k <= (w - 2) + (h - 3) THEN <<w - 2, 1 + (k - (w - 2))>>
    ELSE IF k <= (w - 2) + (h - 3) + (w - 3) THEN <<(w - 2) - (k - (w - 2) - (h - 3)), h - 2>>
    ELSE <<1, (h - 2) - (k - (w - 2) - (h - 3) - (w - 3))>>

\* The direction of the move from cell p to the adjacent cell q.
DirBetween(p, q) == CHOOSE d \in Directions : DirVec(d) = <<q[1] - p[1], q[2] - p[2]>>

\* The seed whose stream the generator follows at level l, if any.
StreamSeed(l) == IF l >= 10 THEN l ELSE 42

\* The least index of the stream that the food of a level can have: 1 where
\* every update() reseeds, and otherwise one for each regenerate since level
\* 7's last reseeding (two for each level advance, one for each food eaten).
MinStreamIndex(l, eaten) ==
    IF IsSeededLevel(l) THEN 1
    ELSE (l - 8) * (foods_per_level + 1) + 2 + eaten

\* The snake of n cells along the ring with its head on the ring's k-th cell.
RingBody(k, n, w, h) ==
    [i \in 1..n |-> Ring(((k - i) % RingLen(w, h)) + 1, w, h)]

InitMid ==
    /\ NotRunning
    /\ current_game = NoGame
    /\ width = MidBoard[1]
    /\ height = MidBoard[2]
    /\ game_over = FALSE
    /\ game_won = FALSE
    /\ level \in 1..max_level
    /\ foods_eaten \in 0..(foods_per_level - 1)
    /\ grow_pending \in BOOLEAN
    /\ score = (level - 1) * (foods_per_level * FoodScore + LevelBonus) + foods_eaten * FoodScore
    /\ food_obstacles = get_level_obstacles(level, width, height)
    /\ LET eaten == (level - 1) * foods_per_level + foods_eaten
           n == 1 + eaten - (IF grow_pending THEN 1 ELSE 0)
           heads == IF level < 7
                    THEN n..Min(n + MidHeads - 1, RingLen(width, height))
                    ELSE 1..RingLen(width, height)
       IN  /\ n >= 1
           /\ \E k \in heads :
                /\ body = RingBody(k, n, width, height)
                /\ direction = IF k > 1 \/ n > 1
                               THEN DirBetween(Ring(((k - 2) % RingLen(width, height)) + 1,
                                                    width, height),
                                               Ring(k, width, height))
                               ELSE "RIGHT"
    /\ SeqToSet(body) \cap food_obstacles = {}
    /\ IF level < 7
       THEN /\ rng = Entropy
            /\ food \in FoodSample(width, height, body, food_obstacles)
       ELSE \E j \in MinStreamIndex(level, foods_eaten)
                       ..(MinStreamIndex(level, foods_eaten) + MidSkips - 1) :
                /\ food = FoodStream(StreamSeed(level), width, height)[j]
                /\ food \in FoodSample(width, height, body, food_obstacles)
                /\ rng = [seed |-> StreamSeed(level),
                          n |-> IF IsSeededLevel(level) /\ ~grow_pending THEN 0 ELSE j]
    /\ fuel = MidTicks
    /\ op = "resume"
    /\ ret = "none"
    /\ pre = "none"

\* A game from its construction, or from a later position.
SpecPlay == (Init \/ InitMid) /\ [][Next]_vars

(***************************************************************************)
(* Food on its own: Food(width, height, obstacles) and then                *)
(* regenerate(snake_body), one iteration of their sampling loops a step.   *)
(* op is the method running; ret is "sampling" before the loop's first     *)
(* iteration, "resampling" after an iteration that rejected its cell and   *)
(* went round, and "returned" once the method has returned.  Neither loop  *)
(* has another exit than the return on a free cell.  fuel is the number of *)
(* rejected cells the model still explores.  The board is the smallest     *)
(* one, the obstacles are any cells of its interior, and the snake lies    *)
(* along the ring.                                                         *)
(***************************************************************************)
NoPosition == <<0, 0>>

InitFood ==
    /\ NotRunning
    /\ current_game = NoGame
    /\ width = MinBoard
    /\ height = MinBoard
    /\ food_obstacles \in SUBSET Interior(width, height)
    /\ \E n \in 1..RingLen(width, height) : body = RingBody(n, n, width, height)
    /\ food = NoPosition
    /\ direction = "RIGHT"
    /\ grow_pending = FALSE
    /\ score = 0
    /\ level = 1
    /\ foods_eaten = 0
    /\ game_over = FALSE
    /\ game_won = FALSE
    /\ rng = Entropy
    /\ op = "Food.__init__"
    /\ ret = "sampling"
    /\ pre = "none"
    /\ fuel = FoodTries

InLoop(method) == op = method /\ ret \in {"sampling", "resampling"}

\* Lines 89-93: the cell drawn is off the obstacles.
GenerateReturn ==
    /\ InLoop("Food.__init__")
    /\ \E pos \in Interior(width, height) :
            /\ pos \notin food_obstacles
            /\ food' = pos
    /\ ret' = "returned"
    /\ UNCHANGED <<width, height, session, body, direction, grow_pending, food_obstacles,
                   score, level, foods_eaten, game_over, game_won, op, pre, fuel, rng>>

\* Lines 89-92: the cell drawn is an obstacle, and the loop goes round.
GenerateAgain ==
    /\ InLoop("Food.__init__")
    /\ fuel > 0
    /\ \E pos \in Interior(width, height) : pos \in food_obstacles
    /\ ret' = "resampling"
    /\ fuel' = fuel - 1
    /\ UNCHANGED <<width, height, session, fields, op, pre, rng>>

\* regenerate(snake_body) is called on the Food constructed.
RegenerateCall ==
    /\ ret = "returned"
    /\ op' = "Food.regenerate"
    /\ ret' = "sampling"
    /\ UNCHANGED <<width, height, session, fields, pre, fuel, rng>>

\* Lines 97-103: the cell drawn is off the snake and off the obstacles.
RegenerateReturn ==
    /\ InLoop("Food.regenerate")
    /\ food' \in FreeCells(width, height, body, food_obstacles)
    /\ ret' = "returned"
    /\ UNCHANGED <<width, height, session, body, direction, grow_pending, food_obstacles,
                   score, level, foods_eaten, game_over, game_won, op, pre, fuel, rng>>

\* Lines 97-101: the cell drawn is taken, and the loop goes round.
RegenerateAgain ==
    /\ InLoop("Food.regenerate")
    /\ fuel > 0
    /\ Interior(width, height) \ FreeCells(width, height, body, food_obstacles) # {}
    /\ ret' = "resampling"
    /\ fuel' = fuel - 1
    /\ UNCHANGED <<width, height, session, fields, op, pre, rng>>

NextFood ==
    \/ GenerateReturn
    \/ GenerateAgain
    \/ RegenerateCall
    \/ RegenerateReturn
    \/ RegenerateAgain

SpecFood == InitFood /\ [][NextFood]_vars

(***************************************************************************)
(* Snake on its own: Snake(start_x, start_y), then move(),                 *)
(* change_direction(d) and grow() in any order.  op is the last call, ret  *)
(* what it returned, and pre the fields before it with its argument.  The  *)
(* snake starts where a GameState of the boards modelled puts it; fuel is  *)
(* the number of move() calls the model still explores.                    *)
(***************************************************************************)
SnakeCall(arg) ==
    [body |-> body, direction |-> direction, grow_pending |-> grow_pending, arg |-> arg]

InitSnake ==
    /\ NotRunning
    /\ current_game = NoGame
    /\ \E b \in Boards \cup {MidBoard} :
            /\ width = b[1]
            /\ height = b[2]
            /\ body = << <<b[1] \div 2, b[2] \div 2>> >>
    /\ direction = "RIGHT"
    /\ grow_pending = FALSE
    /\ food = NoPosition
    /\ food_obstacles = {}
    /\ score = 0
    /\ level = 1
    /\ foods_eaten = 0
    /\ game_over = FALSE
    /\ game_won = FALSE
    /\ rng = Entropy
    /\ op = "Snake"
    /\ ret = "none"
    /\ pre = "none"
    /\ fuel = SnakeMoves

\* What the calls on the Snake leave alone.
SnakeFrame == UNCHANGED <<width, height, session, food, food_obstacles, score, level,
                          foods_eaten, game_over, game_won, rng>>

\* Lines 28-41.
SnakeMove ==
    /\ fuel > 0
    /\ fuel' = fuel - 1
    /\ body' = MoveBody(body, direction, grow_pending)
    /\ grow_pending' = FALSE
    /\ op' = "move"
    /\ ret' = MoveHead(body, direction)
    /\ pre' = SnakeCall("none")
    /\ UNCHANGED direction
    /\ SnakeFrame

\* Lines 43-55.
SnakeChangeDirection ==
    \E d \in Directions :
        /\ direction' = change_direction(direction, d)
        /\ op' = "change_direction"
        /\ ret' = "none"
        /\ pre' = SnakeCall(d)
        /\ UNCHANGED <<body, grow_pending, fuel>>
        /\ SnakeFrame

\* Lines 57-59.
SnakeGrow ==
    /\ grow_pending' = TRUE
    /\ op' = "grow"
    /\ ret' = "none"
    /\ pre' = SnakeCall("none")
    /\ UNCHANGED <<body, direction, fuel>>
    /\ SnakeFrame

NextSnake ==
    \/ SnakeMove
    \/ SnakeChangeDirection
    \/ SnakeGrow

SpecSnake == InitSnake /\ [][NextSnake]_vars

(***************************************************************************)
(* LevelManager on its own: get_level_obstacles(level, width, height) and  *)
(* get_level_speed(level) called with any level and, for the obstacles,    *)
(* any board from MinBoard to MaxQueryBoard a side, or the 20 x 15 board.  *)
(* The seeded levels are queried on the 20 x 15 board, for which           *)
(* SeededScatter has the generator's draws.                                *)
(***************************************************************************)
QueryBoards == ((MinBoard..MaxQueryBoard) \X (MinBoard..MaxQueryBoard)) \cup {MidBoard}

InitLevels ==
    /\ NotRunning
    /\ current_game = NoGame
    /\ \E b \in QueryBoards : width = b[1] /\ height = b[2]
    /\ level \in 1..MaxQueryLevel
    /\ body = << <<width \div 2, height \div 2>> >>
    /\ direction = "RIGHT"
    /\ grow_pending = FALSE
    /\ food = NoPosition
    /\ food_obstacles = {}
    /\ score = 0
    /\ foods_eaten = 0
    /\ game_over = FALSE
    /\ game_won = FALSE
    /\ rng = Entropy
    /\ op = "LevelManager"
    /\ ret = "none"
    /\ pre = "none"
    /\ fuel = 0

\* The number of cells the seeded levels draw (lines 105 and 148), and the
\* bounds of their randint calls (lines 106-107 and 150-151).
ScatterCount(l, w, h) ==
    IF l = 7 THEN Min(20, (w * h) \div 20) ELSE Min(30 + l, (w * h) \div 15)

ScatterLow(l) == IF l = 7 THEN 4 ELSE 3

ScatterHigh(l, side) == IF l = 7 THEN side - 5 ELSE side - 4

\* random.randint(a, b) raises ValueError when b < a; the first draw of a
\* seeded level does so when the board is too narrow or too low.
RandintRaises(l, w, h) ==
    /\ IsSeededLevel(l)
    /\ ScatterCount(l, w, h) >= 1
    /\ \/ ScatterHigh(l, w) < ScatterLow(l)
       \/ ScatterHigh(l, h) < ScatterLow(l)

\* get_level_obstacles leaves by the ValueError of randint, after random.seed.
QueryObstaclesRaises ==
    /\ RandintRaises(level, width, height)
    /\ op' = "get_level_obstacles: ValueError"
    /\ ret' = "none"
    /\ pre' = Snapshot
    /\ rng' = ObstacleRng(rng, level)
    /\ UNCHANGED <<width, height, session, fields, fuel>>

QueryObstacles ==
    /\ ~RandintRaises(level, width, height)
    /\ level <= max_level
    /\ IsSeededLevel(level) => <<width, height>> = MidBoard
    /\ op' = "get_level_obstacles"
    /\ ret' \in ObstaclesDrawn(rng, level, width, height)
    /\ pre' = Snapshot
    /\ rng' = ObstacleRng(rng, level)
    /\ UNCHANGED <<width, height, session, fields, fuel>>

QuerySpeed ==
    /\ op' = "get_level_speed"
    /\ ret' = get_level_speed(level)
    /\ pre' = Snapshot
    /\ UNCHANGED <<width, height, session, fields, fuel, rng>>

NextLevels ==
    \/ QueryObstacles
    \/ QueryObstaclesRaises
    \/ QuerySpeed

SpecLevels == InitLevels /\ [][NextLevels]_vars

(***************************************************************************)
(* SnakeGame._game_loop (main.py): each pass handles one key, then, once   *)
(* the move delay has elapsed and the game is not paused, calls update(),  *)
(* tests for the level completion and renders.  op is the last step of the *)
(* loop; the steps after update() keep its ret and pre.  The loop is       *)
(* entered with the GameState just constructed, or at a later position of  *)
(* a game.  It ends at _handle_game_end, answered by `n`: a game started   *)
(* from there is another run of the loop.                                  *)
(***************************************************************************)
Keys == {"q", "p", "w", "s", "a", "d"}

\* Lines 129-136.
KeyDirection(key) ==
    CASE key = "w" -> "UP"
      [] key = "s" -> "DOWN"
      [] key = "a" -> "LEFT"
      [] key = "d" -> "RIGHT"

\* _start_new_game, lines 61-66, and the entry of _game_loop.
EnterGameLoop ==
    /\ ~running
    /\ op \in {"init", "resume"}
    /\ running' = TRUE
    /\ paused' = FALSE
    /\ op' = "_game_loop"
    /\ UNCHANGED <<width, height, fields, ret, pre, fuel, rng, current_game>>

\* The loop is between two passes, or has handled the key of this pass.
LoopTop ==
    op \in {"_game_loop", "_handle_input", "render_game", "_handle_level_complete"}

\* Lines 76-80 and 116-136, with a key pressed.
HandleInput ==
    /\ LoopTop
    /\ running
    /\ \E key \in Keys :
        /\ running' = (key # "q")
        /\ paused' = IF key = "p" THEN ~paused ELSE paused
        /\ direction' = IF key \in {"w", "s", "a", "d"} /\ ~paused
                        THEN change_direction(direction, KeyDirection(key))
                        ELSE direction
    /\ op' = "_handle_input"
    /\ UNCHANGED <<width, height, body, grow_pending, food, food_obstacles,
                   score, level, foods_eaten, game_over, game_won,
                   ret, pre, fuel, rng, current_game>>

\* Lines 83-88: update() is called in the pass that handled a key, or in a
\* later pass, which the loop enters while running.
LoopCanUpdate ==
    /\ LoopTop
    /\ ~paused
    /\ IF op = "_handle_input" THEN TRUE ELSE running

\* Lines 94-101: the test the loop makes after an update() that returned True.
LevelCompletionSeen == foods_eaten >= foods_per_level

PastMaxLevel == level > max_level

\* Lines 88-91 and 98-104, with _handle_game_end and _ask_play_again.
LoopGameEnd ==
    /\ op = "update"
    /\ IF ret = FALSE THEN TRUE ELSE LevelCompletionSeen /\ PastMaxLevel
    /\ op' = "_handle_game_end"
    /\ running' = FALSE
    /\ UNCHANGED <<width, height, fields, ret, pre, fuel, rng, paused, current_game>>

\* Lines 94-111: _handle_level_complete, then render_game.
LoopLevelComplete ==
    /\ op = "update"
    /\ ret = TRUE
    /\ LevelCompletionSeen
    /\ ~PastMaxLevel
    /\ op' = "_handle_level_complete"
    /\ UNCHANGED <<width, height, fields, ret, pre, fuel, rng, session>>

\* Lines 94-111 with the test of line 94 failing: render_game alone.
LoopRender ==
    /\ op = "update"
    /\ ret = TRUE
    /\ ~LevelCompletionSeen
    /\ op' = "render_game"
    /\ UNCHANGED <<width, height, fields, ret, pre, fuel, rng, session>>

NextLoop ==
    \/ EnterGameLoop
    \/ HandleInput
    \/ LoopCanUpdate /\ UpdateTerminal
    \/ LoopCanUpdate /\ UpdateWall
    \/ LoopCanUpdate /\ UpdateObstacle
    \/ LoopCanUpdate /\ UpdateSelf
    \/ LoopCanUpdate /\ UpdateMove
    \/ LoopCanUpdate /\ UpdateEat
    \/ LoopCanUpdate /\ UpdateAdvance
    \/ LoopCanUpdate /\ UpdateWin
    \/ LoopGameEnd
    \/ LoopLevelComplete
    \/ LoopRender

SpecLoop == (Init \/ InitMid) /\ [][NextLoop]_vars

(***************************************************************************)
(* The 1A2B server (src/1a2b_mcp_server/server.py) and the GameState of    *)
(* src/1a2b_mcp/game/game_engine.py behind it.  A string of the game is    *)
(* the sequence of its characters.  current_game is the session, op the    *)
(* last tool called, ret what it answered and pre the session before the   *)
(* call; fuel is the number of tool calls still explored.  The secret is   *)
(* drawn from the digits 0..MaxDigit.                                      *)
(***************************************************************************)
MaxDigit == 3
MaxCalls == 4

SecretLength == 4

DigitChars == <<"0", "1", "2", "3", "4", "5", "6", "7", "8", "9">>

AllDigits == {DigitChars[i] : i \in 1..10}

\* SecretGenerator.generate_secret: random.sample of four digits.
Secrets ==
    {s \in [1..SecretLength -> {DigitChars[i] : i \in 1..(MaxDigit + 1)}] :
        \A i, j \in 1..SecretLength : i # j => s[i] # s[j]}

\* What the client may send as a guess.
GuessInputs ==
    { <<"0", "1", "2", "3">>,
      <<"1", "0", "2", "3">>,
      <<"3", "0", "1", "2">>,
      <<" ", "3", "2", "1", "0", " ">>,
      <<>>,
      <<" ">>,
      <<"0", "1", "x", "3">>,
      <<"0", "1", "2">>,
      <<"0", "0", "1", "2">> }

\* str.strip
RECURSIVE StripLeft(_)
StripLeft(str) ==
    IF str # <<>> /\ Head(str) = " " THEN StripLeft(Tail(str)) ELSE str

RECURSIVE StripRight(_)
StripRight(str) ==
    IF str # <<>> /\ str[Len(str)] = " "
    THEN StripRight(SubSeq(str, 1, Len(str) - 1))
    ELSE str

Strip(str) == StripRight(StripLeft(str))

\* InputValidator.validate_guess: is_valid, the cleaned input, the error.
validate_guess(user_input) ==
    LET cleaned == Strip(user_input)
    IN  IF cleaned = <<>>
            THEN [is_valid |-> FALSE, cleaned |-> <<>>, error |-> "empty"]
        ELSE IF \E i \in 1..Len(cleaned) : cleaned[i] \notin AllDigits
            THEN [is_valid |-> FALSE, cleaned |-> <<>>, error |-> "not digits"]
        ELSE IF Len(cleaned) # SecretLength
            THEN [is_valid |-> FALSE, cleaned |-> <<>>, error |-> "length"]
        ELSE IF Cardinality(SeqToSet(cleaned)) # SecretLength
            THEN [is_valid |-> FALSE, cleaned |-> <<>>, error |-> "duplicate"]
        ELSE [is_valid |-> TRUE, cleaned |-> cleaned, error |-> ""]

\* GameLogic.calculate_feedback: the bulls, the cows counted over the
\* positions that are not bulls, and the string "XAYB".
Bulls(secret, guess) ==
    Cardinality({i \in 1..SecretLength : secret[i] = guess[i]})

Occurrences(str, positions, digit) ==
    Cardinality({i \in positions : str[i] = digit})

RECURSIVE SumOver(_, _, _)
SumOver(digits, secret_counts, guess_counts) ==
    IF digits = {} THEN 0
    ELSE LET digit == CHOOSE c \in digits : TRUE
         IN  Min(secret_counts[digit], guess_counts[digit])
                 + SumOver(digits \ {digit}, secret_counts, guess_counts)

Cows(secret, guess) ==
    LET others == {i \in 1..SecretLength : secret[i] # guess[i]}
        secret_counts == [c \in AllDigits |-> Occurrences(secret, others, c)]
        guess_counts == [c \in AllDigits |-> Occurrences(guess, others, c)]
    IN  SumOver({c \in AllDigits : guess_counts[c] > 0}, secret_counts, guess_counts)

calculate_feedback(secret, guess) ==
    DigitChars[Bulls(secret, guess) + 1] \o "A"
        \o DigitChars[Cows(secret, guess) + 1] \o "B"

is_winning_guess(feedback) == feedback = "4A0B"

\* GameState.__init__ and GameState.make_guess of the 1A2B game.
NewGame(secret) ==
    [secret |-> secret, guesses |-> <<>>, attempt_count |-> 0, is_won |-> FALSE]

make_guess(game, guess) ==
    LET feedback == calculate_feedback(game.secret, guess)
    IN  [secret |-> game.secret,
         guesses |-> Append(game.guesses, <<guess, feedback>>),
         attempt_count |-> game.attempt_count + 1,
         is_won |-> IF is_winning_guess(feedback) THEN TRUE ELSE game.is_won]

Init1A2B ==
    /\ NotRunning
    /\ current_game = NoGame
    /\ width = MinBoard
    /\ height = MinBoard
    /\ body = << <<width \div 2, height \div 2>> >>
    /\ direction = "RIGHT"
    /\ grow_pending = FALSE
    /\ food = NoPosition
    /\ food_obstacles = {}
    /\ score = 0
    /\ level = 1
    /\ foods_eaten = 0
    /\ game_over = FALSE
    /\ game_won = FALSE
    /\ rng = Entropy
    /\ op = "Game1A2BServer"
    /\ ret = "none"
    /\ pre = NoGame
    /\ fuel = MaxCalls

\* What every tool call has in common.
ToolCall(tool) ==
    /\ fuel > 0
    /\ fuel' = fuel - 1
    /\ op' = tool
    /\ pre' = current_game
    /\ UNCHANGED <<width, height, fields, rng, running, paused>>

\* _ensure_game_exists raises, and the tool answers with the error.
NoActiveGame == current_game = NoGame

\* start_game, lines 51-74.
StartGame ==
    /\ ToolCall("start_game")
    /\ \E secret \in Secrets : current_game' = NewGame(secret)
    /\ ret' = "started"

\* make_guess, lines 77-122: no game, an input the validator refuses, or a
\* guess the game takes.
MakeGuessWithoutGame ==
    /\ NoActiveGame
    /\ ToolCall("make_guess")
    /\ ret' = "error"
    /\ UNCHANGED current_game

MakeGuessInvalid ==
    /\ ~NoActiveGame
    /\ ToolCall("make_guess")
    /\ \E guess \in GuessInputs : ~validate_guess(guess).is_valid
    /\ ret' = "input error"
    /\ UNCHANGED current_game

MakeGuess ==
    /\ ~NoActiveGame
    /\ ToolCall("make_guess")
    /\ \E guess \in GuessInputs :
        /\ validate_guess(guess).is_valid
        /\ current_game' = make_guess(current_game, validate_guess(guess).cleaned)
    /\ ret' = current_game'.guesses[Len(current_game'.guesses)][2]

\* get_game_status (125-152), show_history (155-181) and reveal_answer
\* (184-206) read the session and leave it as it is.
Answer(text) == IF NoActiveGame THEN "error" ELSE text

GetGameStatus ==
    /\ ToolCall("get_game_status")
    /\ ret' = Answer("status")
    /\ UNCHANGED current_game

ShowHistory ==
    /\ ToolCall("show_history")
    /\ ret' = Answer("history")
    /\ UNCHANGED current_game

RevealAnswer ==
    /\ ToolCall("reveal_answer")
    /\ ret' = Answer("answer")
    /\ UNCHANGED current_game

Next1A2B ==
    \/ StartGame
    \/ MakeGuessWithoutGame
    \/ MakeGuessInvalid
    \/ MakeGuess
    \/ GetGameStatus
    \/ ShowHistory
    \/ RevealAnswer

Spec1A2B == Init1A2B /\ [][Next1A2B]_vars

(***************************************************************************)
(* What the claims speak of: an update() call made in a Playing state, the *)
(* head it moved to, and the body the move is to leave, all taken from the *)
(* fields before and after the call.                                       *)
(***************************************************************************)
UpdatedWhilePlaying == op = "update" /\ ~pre.game_over /\ ~pre.game_won

UpdatedWhileTerminal == op = "update" /\ (pre.game_over \/ pre.game_won)

HeadOnBorder ==
    body[1][1] <= 0 \/ body[1][1] >= width - 1 \/ body[1][2] <= 0 \/ body[1][2] >= height - 1

HeadOnObstacle == body[1] \in get_level_obstacles(pre.level, width, height)

\* Head prepended, tail dropped unless growth was pending.
BodyAfterMove ==
    LET head == <<pre.body[1][1] + DirVec(pre.direction)[1],
                  pre.body[1][2] + DirVec(pre.direction)[2]>>
    IN  IF pre.grow_pending THEN <<head>> \o pre.body
        ELSE <<head>> \o SubSeq(pre.body, 1, Len(pre.body) - 1)

HeadOnBody == \E i \in 2..Len(BodyAfterMove) : BodyAfterMove[i] = BodyAfterMove[1]

AteFood ==
    /\ UpdatedWhilePlaying
    /\ ~HeadOnBorder
    /\ ~HeadOnObstacle
    /\ ~HeadOnBody
    /\ body[1] = pre.food

(***************************************************************************)
(* Claims                                                                  *)
(***************************************************************************)

\* C1: terminal states are absorbing: an update() call made when game_over or
\* game_won is true returns False and leaves every field unchanged.
C1_TerminalAbsorbing ==
    UpdatedWhileTerminal => ret = FALSE /\ Snapshot = pre

\* An update() call made after the game was won.
C1_Witness ==
    op = "update" /\ pre.game_won /\ ret = FALSE /\ game_won

\* C2: an update() call made in a Playing state returns False if and only if
\* game_over or game_won is true after the call.
C2_ReturnsFalseIffTerminal ==
    UpdatedWhilePlaying => ((ret = FALSE) <=> (game_over \/ game_won))

\* C3: change_snake_direction in a terminal state changes no field.
C3_DirectionIgnoredWhenTerminal ==
    [][((game_over \/ game_won) /\ op' = "change_snake_direction") => fields' = fields]_vars

\* C4: an update() in a Playing state that moves the head onto the border ring
\* returns False and sets game_over, with game_won false and score, level and
\* foods_eaten as before the call.
C4_WallCollision ==
    (UpdatedWhilePlaying /\ HeadOnBorder) =>
        /\ ret = FALSE
        /\ game_over
        /\ ~game_won
        /\ score = pre.score
        /\ level = pre.level
        /\ foods_eaten = pre.foods_eaten

\* The head has reached x = 0 (scenario C).
C4_Witness ==
    UpdatedWhilePlaying /\ body[1][1] = 0 /\ game_over /\ ret = FALSE

\* C5: an update() in a Playing state that moves the head onto an obstacle of
\* the level in force before the call, inside the interior, sets game_over and
\* returns False, with score, level, foods_eaten and the food as before.
C5_ObstacleCollision ==
    (UpdatedWhilePlaying /\ ~HeadOnBorder /\ HeadOnObstacle) =>
        /\ game_over
        /\ ret = FALSE
        /\ score = pre.score
        /\ level = pre.level
        /\ foods_eaten = pre.foods_eaten
        /\ food = pre.food

C5_Witness ==
    UpdatedWhilePlaying /\ ~HeadOnBorder /\ HeadOnObstacle /\ game_over

\* C6: an update() in a Playing state that hits neither wall nor obstacle sets
\* game_over and returns False if and only if the head, after the move, is on
\* another body element; the cell the tail vacates on that tick does not count.
C6_SelfCollision ==
    (UpdatedWhilePlaying /\ ~HeadOnBorder /\ ~HeadOnObstacle) =>
        /\ (game_over /\ ret = FALSE) <=> HeadOnBody
        /\ game_over <=> HeadOnBody
        /\ body = BodyAfterMove

\* A snake of four or more cells has run into itself.
C6_Witness ==
    /\ UpdatedWhilePlaying /\ ~HeadOnBorder /\ ~HeadOnObstacle
    /\ HeadOnBody /\ game_over /\ ret = FALSE
    /\ Len(pre.body) >= 4

\* The head has moved into the cell the tail of a looped snake left on the
\* same tick, and the game goes on.
C6_TailVacated ==
    /\ UpdatedWhilePlaying /\ ~pre.grow_pending /\ Len(pre.body) >= 4
    /\ body[1] = pre.body[Len(pre.body)]
    /\ ~game_over /\ ret = TRUE

\* C7: an update() in a Playing state with no collision, whose head reaches
\* the food with foods_eaten + 1 below the threshold, adds 10 to score and 1
\* to foods_eaten, sets the pending growth, keeps the level, moves the food
\* to another cell and returns True.
C7_EatBelowThreshold ==
    (AteFood /\ pre.foods_eaten + 1 < 5) =>
        /\ score = pre.score + 10
        /\ foods_eaten = pre.foods_eaten + 1
        /\ grow_pending
        /\ level = pre.level
        /\ food # pre.food
        /\ ret = TRUE

C7_Witness ==
    AteFood /\ pre.foods_eaten + 1 < 5 /\ foods_eaten = 4 /\ level = 3

\* C8: an update() at a level L < 10 that eats the food bringing foods_eaten
\* to 5 leaves level = L + 1, foods_eaten = 0, score 60 higher, both flags
\* false and the obstacle set of level L + 1 in force; from level 1 the score
\* is then 100.
C8_LevelAdvance ==
    (AteFood /\ pre.level < 10 /\ pre.foods_eaten + 1 >= 5) =>
        /\ level = pre.level + 1
        /\ foods_eaten = 0
        /\ score = pre.score + 60
        /\ ~game_won
        /\ ~game_over
        /\ get_obstacles = get_level_obstacles(pre.level + 1, width, height)
        /\ food_obstacles = get_level_obstacles(pre.level + 1, width, height)
        /\ (pre.level = 1 => level = 2 /\ score = 100)

\* Scenario B: the fifth food of level 1.
C8_Witness ==
    AteFood /\ pre.level = 1 /\ pre.foods_eaten = 4 /\ level = 2 /\ score = 100

\* The fifth food of level 9.
C8_WitnessLevel9 ==
    AteFood /\ pre.level = 9 /\ pre.foods_eaten = 4 /\ level = 10

\* C9: the food that completes level 10 does not advance the level: game_won
\* becomes true, level stays 10 and game_over stays false; game_won is never
\* true at a level below 10.
C9_Winning ==
    /\ (AteFood /\ pre.level >= 10 /\ pre.foods_eaten + 1 >= 5) =>
            (game_won /\ level = 10 /\ level = pre.level /\ ~game_over)
    /\ game_won => level >= 10

C9_Witness ==
    AteFood /\ pre.level = 10 /\ pre.foods_eaten = 4 /\ game_won

\* C10: after construction and after every update(), the food is in the
\* interior, off the snake body and off the obstacles of the current level.
C10_FoodPlacement ==
    /\ 1 <= food[1] /\ food[1] <= width - 2
    /\ 1 <= food[2] /\ food[2] <= height - 2
    /\ \A i \in 1..Len(body) : body[i] # food
    /\ food \notin get_level_obstacles(level, width, height)

\* The food regenerated by an update() that advanced to a level with obstacles.
C10_Witness ==
    /\ op = "update" /\ level = pre.level + 1 /\ food # pre.food
    /\ get_level_obstacles(level, width, height) # {}

(***************************************************************************)
(* C11.  Food's sampling ends: Food(..) and regenerate(..) return a cell   *)
(* or fail explicitly, so a loop that has rejected a cell goes round only  *)
(* while a cell it can stop on exists.                                     *)
(***************************************************************************)
C11_FoodSamplingEnds ==
    /\ (op = "Food.__init__" /\ ret = "resampling")
          => Interior(width, height) \ food_obstacles # {}
    /\ (op = "Food.regenerate" /\ ret = "resampling")
          => FreeCells(width, height, body, food_obstacles) # {}

(***************************************************************************)
(* C12.  Snake.move() returns the previous head displaced by the direction *)
(* vector and puts it first in the body.  With no growth pending the rest  *)
(* of the body is the old body without its last cell, and the length is    *)
(* unchanged; with growth pending the rest is the whole old body, the      *)
(* length is one more and the flag is cleared.  The direction is not       *)
(* changed.                                                                *)
(***************************************************************************)
C12_Move ==
    op = "move" =>
        /\ ret = <<pre.body[1][1] + DirVec(pre.direction)[1],
                   pre.body[1][2] + DirVec(pre.direction)[2]>>
        /\ body[1] = ret
        /\ direction = pre.direction
        /\ ~grow_pending
        /\ IF pre.grow_pending
           THEN /\ Len(body) = Len(pre.body) + 1
                /\ Tail(body) = pre.body
           ELSE /\ Len(body) = Len(pre.body)
                /\ Tail(body) = SubSeq(pre.body, 1, Len(pre.body) - 1)

\* A move with growth pending made by a snake of two cells or more that has
\* turned.
C12_Witness ==
    /\ op = "move"
    /\ pre.grow_pending
    /\ Len(pre.body) >= 2
    /\ pre.direction = "UP"
    /\ Len(body) = Len(pre.body) + 1

\* A move with no growth pending made by a snake of two cells or more.
C12_WitnessNoGrowth ==
    /\ op = "move"
    /\ ~pre.grow_pending
    /\ Len(pre.body) >= 2
    /\ Len(body) = Len(pre.body)

(***************************************************************************)
(* C13.  Growth timing.  An update() call never shortens the body and      *)
(* lengthens it by at most one cell, and it lengthens it only if growth    *)
(* was pending when it was called.  Growth is pending after an update()    *)
(* made in a Playing state exactly if that call ate the food, and no call  *)
(* other than update() changes the flag or the body: so the body grows in  *)
(* an update() only if the update() before it ate, and one food eaten is   *)
(* one cell of growth.                                                     *)
(***************************************************************************)
C13_LengthStep ==
    op = "update" =>
        /\ Len(body) \in {Len(pre.body), Len(pre.body) + 1}
        /\ Len(body) = Len(pre.body) + 1 => pre.grow_pending /\ UpdatedWhilePlaying
        /\ UpdatedWhilePlaying => (grow_pending <=> AteFood)
        /\ UpdatedWhileTerminal => grow_pending = pre.grow_pending

C13_GrowthTiming ==
    /\ []C13_LengthStep
    /\ [][op' # "update" => UNCHANGED <<body, grow_pending>>]_vars

\* A body that grew in the update() after the one that ate.
C13_Witness ==
    /\ UpdatedWhilePlaying
    /\ pre.grow_pending
    /\ pre.foods_eaten > 0
    /\ Len(body) = Len(pre.body) + 1
    /\ ~grow_pending

(***************************************************************************)
(* C14.  Snake.change_direction(d), for the sixteen pairs of a current     *)
(* direction and a requested one: a request for the opposite of the        *)
(* current direction (UP/DOWN, LEFT/RIGHT) leaves the direction as it is,  *)
(* any other request makes d the direction, and neither the body nor the   *)
(* pending-growth flag changes.                                            *)
(***************************************************************************)
OppositeDirection(d) ==
    CASE d = "UP"    -> "DOWN"
      [] d = "DOWN"  -> "UP"
      [] d = "LEFT"  -> "RIGHT"
      [] d = "RIGHT" -> "LEFT"

C14_ChangeDirection ==
    op = "change_direction" =>
        /\ direction = IF pre.arg = OppositeDirection(pre.direction)
                       THEN pre.direction
                       ELSE pre.arg
        /\ body = pre.body
        /\ grow_pending = pre.grow_pending

\* A reversal refused, asked of a snake that has turned, moved and is to grow.
C14_Witness ==
    /\ op = "change_direction"
    /\ pre.direction = "UP"
    /\ pre.arg = "DOWN"
    /\ direction = "UP"
    /\ Len(body) >= 2
    /\ grow_pending

\* A turn accepted.
C14_WitnessTurn ==
    /\ op = "change_direction"
    /\ pre.direction = "LEFT"
    /\ pre.arg = "DOWN"
    /\ direction = "DOWN"

(***************************************************************************)
(* C15.  Obstacle determinism.  Whatever has happened to the generator     *)
(* since the last query (food regenerated, another level's obstacles       *)
(* drawn), get_obstacles() returns the one obstacle set of the level and   *)
(* the board, which is the set that update()'s collision check uses: two   *)
(* queries at the same level return the same set.                          *)
(***************************************************************************)
C15_ObstacleDeterminism ==
    op = "get_obstacles" => ret = get_level_obstacles(level, width, height)

\* A query at a seeded level made after the generator has been drawn from.
C15_Witness ==
    /\ op = "get_obstacles"
    /\ IsSeededLevel(level)
    /\ pre.rng.n > 0
    /\ ret = get_level_obstacles(level, width, height)
    /\ ret # {}

(***************************************************************************)
(* C16.  Obstacles stay inside the interior: for every level 1..10 and     *)
(* every board of width >= 5 and height >= 5, every obstacle <<x, y>>      *)
(* that get_level_obstacles returns has 1 <= x <= width - 2 and            *)
(* 1 <= y <= height - 2.                                                   *)
(***************************************************************************)
C16_ObstaclesInInterior ==
    op = "get_level_obstacles" =>
        \A c \in ret : /\ 1 <= c[1] /\ c[1] <= width - 2
                       /\ 1 <= c[2] /\ c[2] <= height - 2

(***************************************************************************)
(* C17.  Obstacle queries are read-only: get_obstacles() leaves the state  *)
(* of the shared process-wide generator as it found it, so the cell that a *)
(* later Food.regenerate draws does not depend on the query.               *)
(***************************************************************************)
C17_QueryKeepsGenerator ==
    op = "get_obstacles" => rng = pre.rng

(***************************************************************************)
(* C18.  get_level_speed, in thousandths: 400 at level 1 and 80 at level   *)
(* 10, strictly decreasing over the levels 1..10; max(50, 80 - 5 (level -  *)
(* 10)) beyond level 10; non-increasing from each level to the next and    *)
(* never below 50.                                                         *)
(***************************************************************************)
C18_Speed ==
    op = "get_level_speed" =>
        /\ ret >= 50
        /\ level = 1 => ret = 400
        /\ level = 10 => ret = 80
        /\ level > 1 => ret <= get_level_speed(level - 1)
        /\ level \in 2..10 => ret < get_level_speed(level - 1)
        /\ level > 10 => ret = IF 80 - 5 * (level - 10) > 50
                                THEN 80 - 5 * (level - 10)
                                ELSE 50

\* A level at which the floor decides the speed.
C18_Witness ==
    /\ op = "get_level_speed"
    /\ level > 16
    /\ ret = 50

(***************************************************************************)
(* C19.  Scenario A: on the 20 x 15 board at level 1, the snake's head at  *)
(* <<10, 7>> facing RIGHT and no direction change, one update() puts the   *)
(* head on <<11, 7>>, returns TRUE with both terminal flags false, and     *)
(* leaves the score 0, wherever the constructor has put the food.          *)
(***************************************************************************)
\* The first update() of a GameState(20, 15), made with the direction of the
\* construction.
ScenarioA ==
    /\ op = "update"
    /\ <<width, height>> = <<20, 15>>
    /\ fuel = MidTicks - 1
    /\ pre.body = << <<10, 7>> >>
    /\ pre.direction = "RIGHT"
    /\ pre.level = 1
    /\ pre.score = 0
    /\ pre.foods_eaten = 0
    /\ ~pre.grow_pending
    /\ ~pre.game_over /\ ~pre.game_won

C19_ScenarioA ==
    ScenarioA =>
        /\ body[1] = <<11, 7>>
        /\ ret = TRUE
        /\ ~game_over /\ ~game_won
        /\ score = 0

\* C19 as amended: the score is 0 unless the constructor has put the food
\* on <<11, 7>>; the update() then eats it, and the score is 10.
C19_ScenarioAFood ==
    ScenarioA =>
        /\ body[1] = <<11, 7>>
        /\ ret = TRUE
        /\ ~game_over /\ ~game_won
        /\ score = IF pre.food = <<11, 7>> THEN 10 ELSE 0

\* Scenario A with the food on the cell the head moves to.
C19_Witness ==
    /\ ScenarioA
    /\ pre.food = <<11, 7>>
    /\ score = 10

\* Scenario A with the food elsewhere.
C19_WitnessNoFood ==
    /\ ScenarioA
    /\ pre.food # <<11, 7>>
    /\ score = 0

(***************************************************************************)
(* C20.  The terminal flags are mutually exclusive: game_over and game_won *)
(* are never both true, and a flag that is true stays true.                *)
(***************************************************************************)
C20_TerminalFlags ==
    /\ [](~(game_over /\ game_won))
    /\ [][(game_over => game_over') /\ (game_won => game_won')]_vars

\* A lost game and a won game on which a further call has been made.
C20_Witness ==
    /\ game_won
    /\ ~game_over
    /\ UpdatedWhileTerminal

C20_WitnessOver ==
    /\ game_over
    /\ ~game_won
    /\ UpdatedWhileTerminal
(***************************************************************************)
(* C21.  Construction: a state right after GameState(width, height) on a  *)
(* board of at least 5 by 5 is Playing (both flags false), with level 1,  *)
(* score 0, foods_eaten 0, a one-cell snake at (width // 2, height // 2)  *)
(* strictly inside the interior, direction Right, no pending growth, an   *)
(* empty obstacle set, and the food in the interior on another cell than  *)
(* the snake's.                                                            *)
(***************************************************************************)
C21_Construction ==
    op = "init" =>
        /\ width >= MinBoard /\ height >= MinBoard
        /\ ~game_over /\ ~game_won
        /\ level = 1 /\ score = 0 /\ foods_eaten = 0
        /\ body = << <<width \div 2, height \div 2>> >>
        /\ body[1][1] \in 1..(width - 2) /\ body[1][2] \in 1..(height - 2)
        /\ direction = "RIGHT"
        /\ ~grow_pending
        /\ food_obstacles = {} /\ get_obstacles = {}
        /\ food[1] \in 1..(width - 2) /\ food[2] \in 1..(height - 2)
        /\ food # body[1]

\* A constructed game on an even width, the food right next to the snake.
C21_Witness ==
    /\ op = "init"
    /\ width = 6
    /\ body = << <<3, 2>> >>
    /\ food = <<2, 2>>

(***************************************************************************)
(* C22.  Body uniqueness under normal play: in every Playing state (after *)
(* construction, or after an update that returned True without winning),  *)
(* the cells of the snake's body are pairwise distinct and each of them   *)
(* lies strictly inside the interior.                                      *)
(***************************************************************************)
C22_BodyDistinctInside ==
    (~game_over /\ ~game_won) =>
        /\ \A i, j \in 1..Len(body) : i # j => body[i] # body[j]
        /\ \A i \in 1..Len(body) :
              /\ body[i][1] \in 1..(width - 2)
              /\ body[i][2] \in 1..(height - 2)

\* A snake of five cells or more that has just moved and is still playing.
C22_Witness ==
    /\ UpdatedWhilePlaying
    /\ ret = TRUE
    /\ ~game_over /\ ~game_won
    /\ Len(body) >= 5
    /\ \E i \in 2..Len(body) : body[i][2] # body[1][2]

(***************************************************************************)
(* C23.  No reversal across ticks: whatever change_snake_direction calls  *)
(* are made between two consecutive updates, the displacement the later   *)
(* update applies is never the negation of the one the earlier update     *)
(* applied.  The earlier displacement is the step from the neck to the    *)
(* head, so the later update never puts the head on the cell the neck     *)
(* had.                                                                    *)
(***************************************************************************)
C23_NoReversalAcrossTicks ==
    (UpdatedWhilePlaying /\ Len(pre.body) >= 2) => body[1] # pre.body[2]

(***************************************************************************)
(* C24.  In every Playing state, the state right after a level advance    *)
(* included, no cell of the snake's body, the head in particular, is in   *)
(* the obstacle set of the current level.                                  *)
(***************************************************************************)
C24_BodyOffObstacles ==
    (~game_over /\ ~game_won) => SeqToSet(body) \cap get_obstacles = {}

(***************************************************************************)
(* C25.  Score accounting: in every state of a game, Playing, GameOver or *)
(* GameWon, score = 100 * (level - 1) + 10 * foods_eaten; the score is a  *)
(* non-negative multiple of 10, no step decreases it, and a won game has  *)
(* the score 950.                                                          *)
(***************************************************************************)
C25_ScoreFormula ==
    /\ score = 100 * (level - 1) + 10 * foods_eaten
    /\ score >= 0
    /\ score % 10 = 0
    /\ game_won => score = 950

C25_ScoreAccounting ==
    []C25_ScoreFormula /\ [][score' >= score]_vars

\* The update that completed a level has added the food and the bonus.
C25_Witness ==
    /\ UpdatedWhilePlaying
    /\ level = pre.level + 1
    /\ score = pre.score + 60

\* A won game.
C25_WitnessWon == UpdatedWhilePlaying /\ game_won /\ score = 950

(***************************************************************************)
(* C26.  Obstacle generation is total on valid boards: for every level    *)
(* from 1 and every board of at least 5 by 5, get_level_obstacles(level,  *)
(* width, height) returns a list and never raises; the coordinate ranges  *)
(* of the random draws at level 7 and at levels from 10 are never empty.  *)
(***************************************************************************)
C26_ObstaclesTotal ==
    (width >= MinBoard /\ height >= MinBoard /\ level >= 1)
        => op # "get_level_obstacles: ValueError"

(***************************************************************************)
(* C27.  Progress counter bounds: in every state of a game,               *)
(* 1 <= level <= 10 and 0 <= foods_eaten <= 5; foods_eaten is 5 exactly   *)
(* in the states where game_won is true and at most 4 in every other      *)
(* state; the level changes only by +1 and only on an update that eats    *)
(* the food.                                                               *)
(***************************************************************************)
C27_CounterBounds ==
    /\ level \in 1..max_level
    /\ foods_eaten \in 0..foods_per_level
    /\ (foods_eaten = foods_per_level) <=> game_won
    /\ ~game_won => foods_eaten <= foods_per_level - 1

C27_LevelStep ==
    level' # level =>
        /\ level' = level + 1
        /\ op' = "update"
        /\ ~game_over /\ ~game_won
        /\ MoveHead(body, direction) = food

C27_ProgressCounters == []C27_CounterBounds /\ [][C27_LevelStep]_vars

\* The update that ate the fifth food of a level below the last.
C27_Witness ==
    /\ UpdatedWhilePlaying
    /\ pre.foods_eaten = foods_per_level - 1
    /\ level = pre.level + 1
    /\ foods_eaten = 0

\* The update that ate the fifth food of the last level.
C27_WitnessWon ==
    /\ UpdatedWhilePlaying
    /\ level = max_level
    /\ foods_eaten = foods_per_level
    /\ game_won

(***************************************************************************)
(* C28.  Bounded end without steering: from a freshly constructed game on *)
(* a board of at least 5 by 5, if change_snake_direction is never called, *)
(* one of the first width - 1 - (width // 2) updates returns False: the   *)
(* game is terminal after at most that many ticks.                         *)
(*                                                                         *)
(* On the boards of Boards the games start at their construction with     *)
(* MaxTicks updates to come, so MaxTicks - fuel updates have been made.   *)
(* Each update of a Playing game moves the head by one cell, so the head  *)
(* is that many cells to the right of the centre exactly when every       *)
(* update so far has moved to the right, as all do without steering.  No  *)
(* such update beyond the bound returns True.                              *)
(***************************************************************************)
UpdatesDone == MaxTicks - fuel

UnsteeredBound == width - 1 - (width \div 2)

AllMovesRight == body[1] = <<(width \div 2) + UpdatesDone, height \div 2>>

C28_BoundedEndUnsteered ==
    (<<width, height>> \in Boards /\ op = "update" /\ AllMovesRight)
        => /\ ret = TRUE => UpdatesDone < UnsteeredBound
           /\ UpdatesDone >= UnsteeredBound => (ret = FALSE /\ game_over)

\* The update that ran into the right wall, the last of the bound.
C28_Witness ==
    /\ <<width, height>> = <<6, 5>>
    /\ op = "update"
    /\ AllMovesRight
    /\ UpdatesDone = UnsteeredBound
    /\ ret = FALSE
    /\ game_over

\* An earlier update of the same game, which returned True.
C28_WitnessPlaying ==
    /\ <<width, height>> = <<6, 5>>
    /\ op = "update"
    /\ AllMovesRight
    /\ UpdatesDone = UnsteeredBound - 1
    /\ ret = TRUE

(***************************************************************************)
(* C29.  Level-complete transition in the game loop: whenever an update   *)
(* in SnakeGame._game_loop advances the level from L to L + 1 (L from 1   *)
(* to 9), the loop shows the level-complete transition                    *)
(* (_handle_level_complete) before the next update: the step the loop     *)
(* takes after such an update is that transition.                          *)
(***************************************************************************)
C29_LevelCompleteShown ==
    [][(op = "update" /\ ret = TRUE /\ level = pre.level + 1)
           => op' = "_handle_level_complete"]_vars

(***************************************************************************)
(* C30.  1A2B server: reveal_answer reveals the answer and ends the game; *)
(* after a successful reveal_answer every make_guess is rejected and      *)
(* changes neither attempt_count nor the guess history, until start_game  *)
(* is called.  In particular the make_guess that directly follows a       *)
(* successful reveal_answer is rejected and leaves both as they were.     *)
(***************************************************************************)
C30_RevealEndsGame ==
    [][(op = "reveal_answer" /\ ret = "answer" /\ op' = "make_guess")
           => /\ ret' \in {"error", "input error"}
              /\ current_game'.attempt_count = current_game.attempt_count
              /\ current_game'.guesses = current_game.guesses]_vars
====
